---------------------------- MODULE Spec2Model ----------------------------
(***************************************************************************)
(* A model of optimistix's generic iteration driver (_iterate.py:          *)
(* _iterate, iterative_solve) and of the root-finding entry point          *)
(* (_root_find.py: root_find).                                             *)
(*                                                                         *)
(* Numeric values (residuals, auxiliary outputs, the root tolerance) are   *)
(* integers counting tenths, so the tolerance 0.1 is the integer 1.        *)
(* A pytree leaf is a record [kind, v]: an array, a jaxpr, a static        *)
(* (non-array) Python value, or None.                                      *)
(***************************************************************************)
EXTENDS Integers, Sequences, FiniteSets, TLC

(***************************************************************************)
(* Bounds of the model.                                                    *)
(***************************************************************************)
\* iterates take the values 0..MaxY
MaxY == 2
\* finite step budgets range over 0..MaxSteps
MaxSteps == 2
\* a loop without a budget is followed for at most StepCap steps
StepCap == 3

(***************************************************************************)
(* Program constants.                                                      *)
(***************************************************************************)
\* the hardcoded root tolerance 0.1, in tenths
RootTol == 1

Ys == 0..MaxY

\* RESULTS members used by the two files
successful == "successful"
nonlinear_max_steps_reached == "nonlinear_max_steps_reached"
nonlinear_root_conversion_failed == "nonlinear_root_conversion_failed"
nonlinear_divergence == "nonlinear_divergence"
RESULTS ==
    {successful, nonlinear_max_steps_reached,
     nonlinear_root_conversion_failed, nonlinear_divergence}

\* RESULTS.where(pred, a, b)
RESULTS_where(pred, a, b) == IF pred THEN a ELSE b

(***************************************************************************)
(* Pytrees: leaves and the equinox filtering operations used by _iterate.  *)
(***************************************************************************)
None == [kind |-> "none", v |-> 0]
Array(n) == [kind |-> "array", v |-> n]
Jaxpr(n) == [kind |-> "jaxpr", v |-> n]
Static(n) == [kind |-> "static", v |-> n]

\* a filter specification is given by the kinds of leaf it accepts
is_array == {"array"}
is_jaxpr == {"jaxpr"}
is_array_or_jaxpr == is_jaxpr \cup is_array

\* eqx.filter(tree, spec, inverse): leaves failing the test become None
filter(tree, spec, inverse) ==
    [f \in DOMAIN tree |->
        IF (tree[f].kind \in spec) # inverse THEN tree[f] ELSE None]

\* eqx.partition(tree, spec) = (filter(tree, spec), filter(tree, spec, inverse=True))
partition(tree, spec) == <<filter(tree, spec, FALSE), filter(tree, spec, TRUE)>>

\* eqx.combine(a, b): leafwise, the first leaf that is not None
combine(a, b) == [f \in DOMAIN a |-> IF a[f] # None THEN a[f] ELSE b[f]]

tree_equal(a, b) == a = b

\* variant: the auxiliary slot keeps the shape/dtype metadata
zero_kept(x) == x

\* _zero on the aux_struct leaf: a ShapeDtypeStruct becomes zeros, anything
\* else passes through
zero(x) == IF x.kind = "struct" THEN Array(0) ELSE x

Abs(n) == IF n < 0 THEN -n ELSE n
Max(a, b) == IF a >= b THEN a ELSE b


(***************************************************************************)
(* Inputs: iterates, user functions, solvers.                              *)
(***************************************************************************)
\* y0 as the caller passes it: a value with an integer or a floating dtype
Y0s == [v : Ys, dtype : {"int", "float"}]

\* args of fn(y, args): the constant term of the residual, in tenths
Offsets == {-2, 0, 1, 10}

\* The user functions: fn(y, args) = args + y^2 (in tenths: args + 10*y^2),
\* alone (has_aux = False) or paired with an auxiliary output a + y.
Fns ==
    {[has_aux |-> FALSE, a |-> 0]}
        \cup {[has_aux |-> TRUE, a |-> a] : a \in {1, 5}}

residual(fn, y, args) == Array(args + 10 * y.v * y.v)

\* fn after root_find's normalisation: always a (value, aux) pair;
\* NoneAux(fn) pairs the value with None
NoneAux(fn, y, args) == [f |-> residual(fn, y, args), aux |-> None]
fn_pair(fn, y, args) ==
    IF fn.has_aux
    THEN [f |-> residual(fn, y, args), aux |-> Array(fn.a + y.v)]
    ELSE NoneAux(fn, y, args)

\* shape/dtype metadata of fn's auxiliary output (fn.out_struct)
aux_struct_of(fn) == IF fn.has_aux THEN [kind |-> "struct", v |-> 0] ELSE None

SolverKinds == {"root_finder", "least_squares", "minimiser"}

\* A solver's behaviour: terminate reports (True, successful) on the iterate
\* stop_at, the code nonlinear_divergence on the iterate fail_at (together
\* with should_stop = fail_stops), and (False, successful) elsewhere; a value
\* outside Ys means "nowhere".  step_static says what step does to the
\* non-array part of the state ("same": nothing, "jaxpr": returns a fresh
\* jaxpr, "tag": changes a static field).
Solvers ==
    [stop_at : 0..(MaxY + 1),
     fail_at : 0..(MaxY + 1),
     fail_stops : BOOLEAN,
     step_static : {"same", "jaxpr", "tag"}]

\* solver.init: the state holds the previous iterate (an array), a static
\* field and a jaxpr
solver_init(solver, y, args) ==
    [dyn |-> Array(y.v), tag |-> Static(0), jaxpr |-> Jaxpr(0)]

\* solver.step: (new_y, new_state, aux)
solver_step(solver, fn, y, args, state) ==
    [y |-> [v |-> (y.v + 1) % (MaxY + 1), dtype |-> y.dtype],
     state |->
        [dyn |-> Array(y.v),
         tag |-> IF solver.step_static = "tag" THEN Static(1) ELSE state.tag,
         jaxpr |-> IF solver.step_static = "jaxpr" THEN Jaxpr(1) ELSE state.jaxpr],
     aux |-> fn_pair(fn, y, args).aux]

\* solver.terminate: (should_stop, result)
solver_terminate(solver, y, state) ==
    IF y.v = solver.fail_at
    THEN [stop |-> solver.fail_stops, result |-> nonlinear_divergence]
    ELSE [stop |-> (y.v = solver.stop_at), result |-> successful]

\* inexact_asarray: integer inputs are promoted to a floating dtype
inexact_asarray(y) == [v |-> y.v, dtype |-> "float"]

\* max_norm: the largest absolute value over the array leaves of a pytree
max_norm(tree) ==
    LET leaf(f) == IF tree[f].kind \in is_array THEN Abs(tree[f].v) ELSE 0
    IN  Max(leaf("f"), leaf("aux"))


(***************************************************************************)
(* State.                                                                  *)
(***************************************************************************)
VARIABLES
    pc,            \* where the call is
    inp,           \* root_find's arguments that stay in use: fn, solver, args, throw
    branch,        \* "least_squares" or "root_finder": root_find's dispatch
    it,            \* iterative_solve's arguments: y0, max_steps, throw
    static_state,  \* _iterate: the non-array part of init's state
    carry,         \* _iterate: the loop carry
    out,           \* _iterate's return value
    sol,           \* the Solution under construction / returned
    delegated,     \* history: the Solution least_squares returned
    last_step,     \* history: what the solver's last init/step call returned
    revalidated,   \* history: root_find has re-evaluated fn at sol.value
    step_calls,    \* history: number of solver.step calls
    init_calls,    \* history: number of solver.init calls
    terminate_called, \* history: solver.terminate has been called
    error_checks   \* history: number of error_if evaluations

vars ==
    <<pc, inp, branch, it, static_state, carry, out, sol, delegated,
      last_step, revalidated, step_calls, init_calls, terminate_called,
      error_checks>>

\* max_steps: <<>> is None, <<n>> is the budget n
NoBudget == <<>>
\* tags: the structural hints about the Jacobian the caller may pass
Tags == {{}, {"symmetric"}}
MaxStepsValues == {NoBudget} \cup {<<n>> : n \in 0..MaxSteps}

NoY == [v |-> 0, dtype |-> "none"]
NoState == [dyn |-> None, tag |-> None, jaxpr |-> None]
NoCarry == [y |-> NoY, num_steps |-> 0, dynamic_state |-> NoState, aux |-> None]
NoOut ==
    [final_y |-> NoY, num_steps |-> 0, result |-> "none",
     final_state |-> NoState, aux |-> None]
NoSol ==
    [value |-> NoY, result |-> "none", state |-> NoState, aux |-> None,
     stats |-> [num_steps |-> 0, max_steps |-> NoBudget]]
NoInp ==
    [fn |-> [has_aux |-> FALSE, a |-> 0],
     solver |-> [stop_at |-> 0, fail_at |-> 0, fail_stops |-> FALSE,
                 step_static |-> "same"],
     args |-> 0, throw |-> FALSE, max_steps |-> NoBudget, tags |-> {}]
NoStep == [y |-> NoY, state |-> NoState, aux |-> None]
NoIt == [y0 |-> NoY, max_steps |-> NoBudget, throw |-> FALSE, tags |-> {}]

Init ==
    /\ pc = "idle"
    /\ inp = NoInp
    /\ branch = "none"
    /\ it = NoIt
    /\ static_state = NoState
    /\ carry = NoCarry
    /\ out = NoOut
    /\ sol = NoSol
    /\ delegated = NoSol
    /\ last_step = NoStep
    /\ revalidated = FALSE
    /\ step_calls = 0
    /\ init_calls = 0
    /\ terminate_called = FALSE
    /\ error_checks = 0


(***************************************************************************)
(* root_find: normalisation and dispatch.                                  *)
(***************************************************************************)
\* isinstance(solver, (AbstractMinimiser, AbstractLeastSquaresSolver))
is_minimiser_or_least_squares(kind) == kind \in {"minimiser", "least_squares"}

\* variant: the caller's throw is handed on to least_squares
least_squares_throw_forwarded(throw) == throw

\* the throw root_find passes to least_squares
least_squares_throw(throw) == FALSE

\* least_squares(fn, solver, y0, args, options, has_aux=True, max_steps=...,
\* adjoint=..., throw=...): the least-squares entry point hands its arguments
\* to iterative_solve
least_squares(y0, max_steps, throw_) ==
    [y0 |-> inexact_asarray(y0), max_steps |-> max_steps, throw |-> throw_,
     tags |-> {}]

\* variant: throw is left at iterative_solve's default
iterative_solve_args_default(y0, max_steps, throw_, tags) ==
    [y0 |-> inexact_asarray(y0), max_steps |-> max_steps, throw |-> TRUE,
     tags |-> tags]

\* lines 139, 145-158: what the root-finder branch hands to iterative_solve
iterative_solve_args(y0, max_steps, throw_, tags) ==
    [y0 |-> inexact_asarray(y0), max_steps |-> max_steps, throw |-> throw_,
     tags |-> tags]

RootFind ==
    /\ pc = "idle"
    /\ \E fn \in Fns, kind \in SolverKinds, solver \in Solvers, y0 \in Y0s,
          args \in Offsets, max_steps \in MaxStepsValues, throw_ \in BOOLEAN,
          tags \in Tags :
        \* line 101: the least-squares branch deletes the caller's tags
        /\ is_minimiser_or_least_squares(kind) => tags = {}
        /\ inp' = [fn |-> fn, solver |-> solver, args |-> args,
                   throw |-> throw_, max_steps |-> max_steps, tags |-> tags]
        /\ IF is_minimiser_or_least_squares(kind)
           THEN /\ branch' = "least_squares"
                /\ it' = least_squares(y0, max_steps, least_squares_throw(throw_))
           ELSE /\ branch' = "root_finder"
                /\ it' = iterative_solve_args(y0, max_steps, throw_, tags)
    /\ pc' = "iterative_solve"
    /\ UNCHANGED <<static_state, carry, out, sol, delegated, last_step,
                   revalidated, step_calls, error_checks,
                   init_calls, terminate_called>>

(***************************************************************************)
(* _iterate.                                                               *)
(***************************************************************************)
\* lines 186-194: the initial carry
init_aux(fn) == zero(aux_struct_of(fn))
init_state(solver, y0, args) == solver_init(solver, y0, args)
init_carry(fn, solver, y0, args) ==
    [y |-> y0,
     num_steps |-> 0,
     dynamic_state |-> partition(init_state(solver, y0, args), is_array)[1],
     aux |-> init_aux(fn)]

Iterate ==
    /\ pc = "iterative_solve"
    /\ static_state' =
          partition(init_state(inp.solver, it.y0, inp.args), is_array)[2]
    /\ carry' = init_carry(inp.fn, inp.solver, it.y0, inp.args)
    /\ last_step' =
          [y |-> it.y0, state |-> init_state(inp.solver, it.y0, inp.args),
           aux |-> init_aux(inp.fn)]
    /\ pc' = "while_loop"
    /\ init_calls' = init_calls + 1
    /\ UNCHANGED <<inp, branch, it, out, sol, delegated, revalidated,
                   step_calls, error_checks,
                   terminate_called>>

\* variant: a do-while loop, the first step is taken without asking terminate
cond_fun_after_first(c) ==
    LET state == combine(static_state, c.dynamic_state)
        terminate == solver_terminate(inp.solver, c.y, state).stop
    IN  c.num_steps = 0 \/ ~terminate

\* variant: a non-successful code ends the loop as well
cond_fun_stop_on_failure(c) ==
    LET state == combine(static_state, c.dynamic_state)
        t == solver_terminate(inp.solver, c.y, state)
    IN  ~t.stop /\ t.result = successful

cond_fun(c) ==
    LET state == combine(static_state, c.dynamic_state)
        terminate == solver_terminate(inp.solver, c.y, state).stop
    IN  ~terminate

\* variant: the budget allows one step too many
budget_left_inclusive(max_steps, num_steps) ==
    IF max_steps = NoBudget THEN TRUE ELSE num_steps <= max_steps[1]

\* the loop runs while cond_fun holds and the budget, if any, is not used up
budget_left(max_steps, num_steps) ==
    IF max_steps = NoBudget THEN TRUE ELSE num_steps < max_steps[1]
loop_continues(c) == cond_fun(c) /\ budget_left(it.max_steps, c.num_steps)

\* body_fun: the state step is given, what it returns, the assertion, the
\* new carry
body_state(c) == combine(static_state, c.dynamic_state)
body_step(c) == solver_step(inp.solver, inp.fn, c.y, inp.args, body_state(c))
\* variant: the defensive assertion is left out
body_assertion_skipped(c) == TRUE

body_assertion(c) ==
    LET new_static_state == partition(body_step(c).state, is_array)[2]
        new_static_state_no_jaxpr == filter(new_static_state, is_jaxpr, TRUE)
        static_state_no_jaxpr == filter(body_state(c), is_array_or_jaxpr, TRUE)
    IN  tree_equal(static_state_no_jaxpr, new_static_state_no_jaxpr)
\* variant: the new solver state is dropped, the old one is carried on
body_fun_stale(c) ==
    [y |-> body_step(c).y,
     num_steps |-> c.num_steps + 1,
     dynamic_state |-> c.dynamic_state,
     aux |-> body_step(c).aux]

\* variant: the whole state a step returns is carried on
body_fun_full(c) ==
    [y |-> body_step(c).y,
     num_steps |-> c.num_steps + 1,
     dynamic_state |-> body_step(c).state,
     aux |-> body_step(c).aux]

\* variant: the step counter is not advanced
body_fun_uncounted(c) ==
    [y |-> body_step(c).y,
     num_steps |-> c.num_steps,
     dynamic_state |-> partition(body_step(c).state, is_array)[1],
     aux |-> body_step(c).aux]

body_fun(c) ==
    [y |-> body_step(c).y,
     num_steps |-> c.num_steps + 1,
     dynamic_state |-> partition(body_step(c).state, is_array)[1],
     aux |-> body_step(c).aux]

BodyFun ==
    /\ pc = "while_loop"
    /\ loop_continues(carry)
    /\ it.max_steps = NoBudget => carry.num_steps < StepCap
    /\ step_calls' = step_calls + 1
    /\ last_step' = body_step(carry)
    /\ IF body_assertion(carry)
       THEN /\ carry' = body_fun(carry)
            /\ pc' = "while_loop"
       ELSE /\ pc' = "aborted"
            /\ UNCHANGED carry
    /\ terminate_called' = TRUE
    /\ UNCHANGED <<inp, branch, it, static_state, out, sol, delegated,
                   revalidated, error_checks,
                   init_calls>>

\* variant: the post-loop override is left out
final_result_kept(terminate, result) == result

\* lines 225-229
final_result(terminate, result) ==
    RESULTS_where(
        (result = successful) /\ ~terminate,
        nonlinear_max_steps_reached,
        result)

\* lines 222-230: what _iterate returns for the final carry
iterate_return(c) ==
    LET final_state_ == combine(static_state, c.dynamic_state)
        t == solver_terminate(inp.solver, c.y, final_state_)
    IN  [final_y |-> c.y,
         num_steps |-> c.num_steps,
         result |-> final_result(t.stop, t.result),
         final_state |-> c.dynamic_state,
         aux |-> c.aux]

IterateReturn ==
    /\ pc = "while_loop"
    /\ ~loop_continues(carry)
    /\ out' = iterate_return(carry)
    /\ pc' = "iterated"
    /\ terminate_called' = TRUE
    /\ UNCHANGED <<inp, branch, it, static_state, carry, sol, delegated,
                   last_step, revalidated, step_calls, error_checks,
                   init_calls>>

(***************************************************************************)
(* iterative_solve: the Solution and the raise.                            *)
(***************************************************************************)
\* lines 297-298
Solution(o, max_steps) ==
    [value |-> o.final_y,
     result |-> o.result,
     state |-> o.final_state,
     aux |-> o.aux,
     stats |-> [num_steps |-> o.num_steps, max_steps |-> max_steps]]

\* variant: running out of steps is not treated as a failure
error_if_raises_lenient(result) ==
    result \notin {successful, nonlinear_max_steps_reached}

\* result.error_if(sol, result != RESULTS.successful) raises
error_if_raises(result) == result # successful

IterativeSolve ==
    /\ pc = "iterated"
    /\ sol' = Solution(out, it.max_steps)
    /\ IF it.throw
       THEN /\ error_checks' = error_checks + 1
            /\ IF error_if_raises(out.result)
               THEN /\ pc' = "raised"
                    /\ UNCHANGED delegated
               ELSE /\ pc' = IF branch = "least_squares"
                             THEN "least_squares_returned" ELSE "returned"
                    /\ delegated' = IF branch = "least_squares"
                                    THEN sol' ELSE delegated
       ELSE /\ UNCHANGED error_checks
            /\ pc' = IF branch = "least_squares"
                     THEN "least_squares_returned" ELSE "returned"
            /\ delegated' = IF branch = "least_squares" THEN sol' ELSE delegated
    /\ UNCHANGED <<inp, branch, it, static_state, carry, out, last_step,
                   revalidated, step_calls,
                   init_calls, terminate_called>>

(***************************************************************************)
(* root_find: re-validation of a least-squares/minimiser solve.            *)
(***************************************************************************)
\* line 127: fn is the normalised function, so f_val is its (value, aux) pair
f_val_of(fn, s) == fn_pair(fn, s.value, inp.args)
f_val(s) == f_val_of(inp.fn, s)
\* line 128
did_not_find_root_of(fn, s) == max_norm(f_val_of(fn, s)) > RootTol
did_not_find_root(s) == did_not_find_root_of(inp.fn, s)
\* lines 129-133, for the user function fn
revalidated_result_of(fn, s) ==
    RESULTS_where(
        did_not_find_root_of(fn, s) /\ (s.result = successful),
        nonlinear_root_conversion_failed,
        s.result)
\* variant: the override does not look at the delegated code
revalidated_result_eager(s) ==
    RESULTS_where(
        did_not_find_root(s),
        nonlinear_root_conversion_failed,
        s.result)

revalidated_result(s) == revalidated_result_of(inp.fn, s)
\* variant: the Solution is rebuilt and its statistics are reset
tree_at_result_rebuilt(s, result) ==
    [s EXCEPT !.result = result, !.stats = NoSol.stats]

\* line 134: eqx.tree_at(lambda s: s.result, sol, result)
tree_at_result(s, result) == [s EXCEPT !.result = result]

Revalidate ==
    /\ pc = "least_squares_returned"
    /\ sol' = tree_at_result(sol, revalidated_result(sol))
    /\ revalidated' = TRUE
    /\ pc' = "revalidated"
    /\ UNCHANGED <<inp, branch, it, static_state, carry, out, delegated,
                   last_step, step_calls, error_checks,
                   init_calls, terminate_called>>

\* lines 135-137
RootFindThrow ==
    /\ pc = "revalidated"
    /\ IF inp.throw
       THEN /\ error_checks' = error_checks + 1
            /\ pc' = IF error_if_raises(sol.result) THEN "raised" ELSE "returned"
       ELSE /\ UNCHANGED error_checks
            /\ pc' = "returned"
    /\ UNCHANGED <<inp, branch, it, static_state, carry, out, sol, delegated,
                   last_step, revalidated, step_calls,
                   init_calls, terminate_called>>

Next ==
    \/ RootFind
    \/ Iterate
    \/ BodyFun
    \/ IterateReturn
    \/ IterativeSolve
    \/ Revalidate
    \/ RootFindThrow

Spec == Init /\ [][Next]_vars


(***************************************************************************)
(* Properties.                                                             *)
(***************************************************************************)
\* _iterate has returned (out is set)
Iterated == pc \in {"iterated", "least_squares_returned", "revalidated",
                    "returned", "raised"}
\* the loop is running or has exited
InLoop == pc = "while_loop" \/ Iterated
Finite == it.max_steps # NoBudget
Budget == it.max_steps[1]
\* terminate evaluated on the final carry, as _iterate evaluates it
final_terminate ==
    solver_terminate(inp.solver, out.final_y,
                     combine(static_state, out.final_state))
\* the solver's terminate never asks to stop, on any iterate
NeverStops(solver) ==
    \A v \in Ys :
        ~solver_terminate(solver, [v |-> v, dtype |-> "float"], NoState).stop

\* C1: whenever _iterate reports successful, terminate evaluated on the
\* final carry returns (True, successful); so a successful result with
\* num_steps = max_steps means terminate fired on the final iterate.
C1_SuccessMeansTerminated ==
    (Iterated /\ out.result = successful)
        => final_terminate = [stop |-> TRUE, result |-> successful]

\* C1 witness: success reported with the budget exactly used up
C1_Witness ==
    /\ pc = "iterated"
    /\ out.result = successful
    /\ Finite
    /\ out.num_steps = Budget
    /\ out.num_steps > 0

\* C2: with a finite budget 0 <= num_steps <= max_steps in every state of
\* the loop and at exit; num_steps counts the solver.step calls performed;
\* the Solution's stats carry that count and the max_steps that was passed.
C2_StepCount ==
    /\ (InLoop /\ Finite) => (0 <= carry.num_steps /\ carry.num_steps <= Budget)
    /\ InLoop => carry.num_steps = step_calls
    /\ Iterated => out.num_steps = step_calls
    /\ pc \in {"least_squares_returned", "revalidated", "returned"} =>
          /\ sol.stats.num_steps = step_calls
          /\ sol.stats.max_steps = it.max_steps
          /\ Finite => sol.stats.num_steps <= Budget

\* C2 witness: a Solution returned after the whole budget was spent on steps
C2_Witness ==
    /\ pc = "returned"
    /\ Finite
    /\ sol.stats.num_steps = Budget
    /\ step_calls = MaxSteps

\* C3 as stated: a solver whose terminate never asks to stop, under a finite
\* budget, ends with max_steps_reached and num_steps = max_steps.
C3_Original ==
    (Iterated /\ Finite /\ NeverStops(inp.solver))
        => (out.result = nonlinear_max_steps_reached /\ out.num_steps = Budget)

\* C3 amended: for such a solver num_steps = max_steps, and the result is
\* max_steps_reached when terminate's code on the final carry is successful;
\* a non-successful code reported there (with should_stop false) is
\* returned as it is.
C3_Amended ==
    (Iterated /\ Finite /\ NeverStops(inp.solver))
        => /\ out.num_steps = Budget
           /\ out.result =
                IF final_terminate.result = successful
                THEN nonlinear_max_steps_reached
                ELSE final_terminate.result

\* C3 witness: both outcomes exist; here the never-stopping solver used up a
\* positive budget and max_steps_reached is reported
C3_Witness ==
    /\ pc = "iterated"
    /\ Finite
    /\ NeverStops(inp.solver)
    /\ Budget = MaxSteps
    /\ out.result = nonlinear_max_steps_reached

\* C4: a raise happens exactly when throw is set and the final code is not
\* successful, for iterative_solve (its own throw) and for root_find (the
\* caller's throw); the error_if decision is evaluated at most once, only
\* after the loop has exited, and exactly once when throw is set.
C4_RaiseIffThrowAndFailure ==
    /\ (pc \in {"returned", "raised"}) =>
          /\ (pc = "raised") <=> (inp.throw /\ sol.result # successful)
          /\ error_checks = IF inp.throw THEN 1 ELSE 0
    /\ (pc \in {"least_squares_returned", "returned", "raised"} /\ ~revalidated) =>
          ((pc = "raised") <=> (it.throw /\ out.result # successful))
    /\ error_checks <= 1
    /\ error_checks > 0 => pc \in {"least_squares_returned", "returned", "raised"}

\* C4 witness: a budget-exhausted solve raises
C4_Witness ==
    /\ pc = "raised"
    /\ sol.result = nonlinear_max_steps_reached
    /\ step_calls > 0


\* the max-norm of the residual alone at a Solution's value
residual_norm(s) == Abs(residual(inp.fn, s.value, inp.args).v)

\* C5: in the least-squares/minimiser branch the returned code is
\* root_conversion_failed exactly when the delegated code was successful and
\* the max-norm of the residual fn(value, args) is strictly above 0.1;
\* a successful delegated code with norm <= 0.1 stays successful.
C5_RootConversionExactly ==
    revalidated =>
        /\ (sol.result = nonlinear_root_conversion_failed)
              <=> (delegated.result = successful /\ residual_norm(delegated) > RootTol)
        /\ (delegated.result = successful /\ residual_norm(delegated) <= RootTol)
              => sol.result = successful

\* C6: least_squares is always called with throw = False, so no raise
\* precedes the re-validation; the caller's throw acts afterwards on the
\* revised code: a successful delegated solve whose residual max-norm is
\* above 0.1 raises under throw = True.
C6_RevalidateBeforeRaise ==
    branch = "least_squares" =>
        /\ it.throw = FALSE
        /\ pc = "raised" => revalidated
        /\ error_checks > 0 => revalidated
        /\ (pc \in {"returned", "raised"} /\ inp.throw
               /\ delegated.result = successful
               /\ residual_norm(delegated) > RootTol)
              => (pc = "raised" /\ sol.result = nonlinear_root_conversion_failed)

\* C6 witness: throw = True, the delegated solve succeeded away from a root
\* and root_find raised after re-validating
C6_Witness ==
    /\ branch = "least_squares"
    /\ pc = "raised"
    /\ inp.throw
    /\ delegated.result = successful
    /\ residual_norm(delegated) > RootTol
    /\ revalidated

\* C7: with throw = False the Solution of iterative_solve holds the final
\* carry: value, the full solver state and aux are what the solver's last
\* step returned (what init produced when no step was taken).
C7_SolutionIsLastStep ==
    (pc \in {"returned", "least_squares_returned"} /\ ~it.throw) =>
        /\ sol.value = last_step.y
        /\ sol.state = last_step.state
        /\ sol.aux = last_step.aux

\* the reference trajectory: the solver's own init followed by k steps
RECURSIVE iterate_k(_, _, _, _, _)
iterate_k(fn, solver, y0, args, k) ==
    IF k = 0
    THEN [y |-> y0, state |-> solver_init(solver, y0, args), aux |-> init_aux(fn)]
    ELSE LET p == iterate_k(fn, solver, y0, args, k - 1)
         IN  solver_step(solver, fn, p.y, args, p.state)
kth(k) == iterate_k(inp.fn, inp.solver, it.y0, inp.args, k)
terminate_at(k) == solver_terminate(inp.solver, kth(k).y, kth(k).state)
FirstFiresAt(k) ==
    /\ terminate_at(k).stop
    /\ \A j \in 0..(k - 1) : ~terminate_at(j).stop

\* C8: if along the trajectory from y0 terminate fires for the first time
\* after k steps, with code successful, then under every budget >= k (or no
\* budget) the driver reports successful, num_steps = k and the k-th iterate,
\* having called step exactly k times.
C8_StopsAtFirstTermination ==
    Iterated =>
        \A k \in 0..StepCap :
            (/\ FirstFiresAt(k)
             /\ terminate_at(k).result = successful
             /\ IF Finite THEN Budget >= k ELSE TRUE)
                => /\ out.result = successful
                   /\ out.num_steps = k
                   /\ out.final_y = kth(k).y
                   /\ step_calls = k

\* C8 witness: no budget, terminate first fires after MaxY steps
C8_Witness ==
    /\ pc = "iterated"
    /\ ~Finite
    /\ FirstFiresAt(MaxY)
    /\ out.result = successful
    /\ out.num_steps = MaxY

\* C9: both overrides replace only a successful code: a non-successful code
\* from terminate on the final carry is what _iterate returns, whatever
\* should_stop is, and a non-successful delegated code is what root_find
\* returns, whatever the residual norm is.
C9_FirstFailureWins ==
    /\ Iterated =>
          (final_terminate.result # successful
              => out.result = final_terminate.result)
    /\ revalidated =>
          (delegated.result # successful => sol.result = delegated.result)

\* C9 witness: a failure code reported with should_stop false survives both
\* overrides although the budget ran out and the residual is far from zero
C9_Witness ==
    /\ revalidated
    /\ ~final_terminate.stop
    /\ final_terminate.result = nonlinear_divergence
    /\ did_not_find_root(delegated)
    /\ sol.result = nonlinear_divergence

\* C10: the re-validation changes nothing but result: value, state, aux and
\* stats of the returned Solution are those of the delegated Solution.
C10_OnlyResultRevised ==
    revalidated =>
        /\ sol.value = delegated.value
        /\ sol.state = delegated.state
        /\ sol.aux = delegated.aux
        /\ sol.stats = delegated.stats

\* C10 witness: the re-validation did revise the code, after a solve that
\* took steps
C10_Witness ==
    /\ revalidated
    /\ sol.result # delegated.result
    /\ sol.stats.num_steps > 0


\* terminate evaluated on the carry the loop currently holds
carry_terminate == solver_terminate(inp.solver, carry.y, body_state(carry))
\* terminate evaluated on the initial carry (y0, init's state)
initial_terminate ==
    solver_terminate(inp.solver, it.y0, init_state(inp.solver, it.y0, inp.args))

\* C11: solver.step is only ever called on a carry for which terminate does
\* not ask to stop; and when terminate fires on the initial carry the driver
\* takes no step and returns value = y0 with num_steps = 0, under every
\* budget.
C11_TerminateBeforeStep ==
    /\ [][(step_calls' # step_calls) => ~carry_terminate.stop]_vars
    /\ []((Iterated /\ initial_terminate.stop) =>
            /\ step_calls = 0
            /\ out.num_steps = 0
            /\ out.final_y = it.y0
            /\ (pc \in {"returned", "least_squares_returned"}) =>
                  (sol.value = it.y0 /\ sol.stats.num_steps = 0))

\* C11 witness: terminate fires on the initial carry, the budget is positive
\* and the Solution returned holds y0 after zero steps
C11_Witness ==
    /\ pc = "returned"
    /\ initial_terminate.stop
    /\ Finite
    /\ Budget = MaxSteps
    /\ sol.value = it.y0
    /\ sol.stats.num_steps = 0

\* a solver.step call happens in this step
StepCalled == step_calls' = step_calls + 1
\* the step was accepted into the carry
StepAccepted == StepCalled /\ pc' = "while_loop"

\* C12 as stated: each step call receives exactly the y and the solver state
\* the previous call produced (the first one y0 and init's state), and the
\* counter grows by exactly 1 per step.
C12_Original ==
    [][StepCalled =>
          /\ carry.y = last_step.y
          /\ body_state(carry) = last_step.state
          /\ StepAccepted => carry'.num_steps = carry.num_steps + 1]_vars

\* C12 amended: each step call receives the y and the array leaves of the
\* state the previous call produced, together with the non-array leaves of
\* init's state; non-array leaves returned by a step (a fresh jaxpr) are not
\* passed on.  The counter grows by exactly 1 per accepted step and the
\* accepted carry is what the call returned.
C12_Amended ==
    [][StepCalled =>
          /\ carry.y = last_step.y
          /\ body_state(carry) =
                combine(partition(last_step.state, is_array)[1], static_state)
          /\ static_state =
                partition(init_state(inp.solver, it.y0, inp.args), is_array)[2]
          /\ StepAccepted =>
                /\ carry'.num_steps = carry.num_steps + 1
                /\ carry'.y = last_step'.y
                /\ carry'.dynamic_state = partition(last_step'.state, is_array)[1]
                /\ carry'.aux = last_step'.aux]_vars

\* C12 witness: two steps were taken by a solver whose step returns a fresh
\* jaxpr
C12_Witness ==
    /\ pc = "while_loop"
    /\ step_calls = 2
    /\ carry.num_steps = 2
    /\ inp.solver.step_static = "jaxpr"
    /\ last_step.state.jaxpr # static_state.jaxpr

\* the non-array leaves of the state the last solver call returned
last_static == partition(last_step.state, is_array)[2]
no_jaxpr(tree) == filter(tree, is_jaxpr, TRUE)

\* C13 as stated: after every step the non-array portion of the returned
\* state equals that of the state given (whose non-array portion is the
\* hoisted static_state); a step that changes any non-array leaf aborts the
\* solve on the assertion.
C13_Original ==
    step_calls > 0 => ((pc = "aborted") <=> (last_static # static_state))

\* C13 amended: the comparison leaves jaxpr leaves out.  After every accepted
\* step the non-array, non-jaxpr portion of the returned state equals that of
\* the state given; a step call that changes such a leaf aborts the solve and
\* no output or Solution is produced; a step that only returns another jaxpr
\* is accepted.
C13_Amended ==
    /\ [](step_calls > 0 =>
            ((pc = "aborted")
                <=> (no_jaxpr(last_static) # no_jaxpr(static_state))))
    /\ [](pc = "aborted" => (out = NoOut /\ sol = NoSol))
    /\ [][pc = "aborted" => pc' = "aborted"]_vars

\* C13 witness: a step changed a static field and the solve aborted
C13_Witness ==
    /\ pc = "aborted"
    /\ step_calls = 1
    /\ last_step.state.tag # static_state.tag


\* the zero-filled auxiliary slot of a solve of fn: a zero array where fn has
\* an auxiliary output, the non-array leaf None passed through where it has not
aux_placeholder == IF inp.fn.has_aux THEN Array(0) ELSE None

\* C14: solver.init is called exactly once per solve, before any terminate or
\* step call; the initial carry is (y0, 0, init's state, zero-filled auxiliary
\* slot); and a Solution built after no step has the zero-filled placeholder
\* as its aux, not fn's auxiliary output at y0.
C14_InitOnceZeroAux ==
    /\ init_calls <= 1
    /\ init_calls = 0 => (step_calls = 0 /\ ~terminate_called)
    /\ pc \notin {"idle", "iterative_solve"} => init_calls = 1
    /\ (pc = "while_loop" /\ step_calls = 0) =>
          /\ carry.y = it.y0
          /\ carry.num_steps = 0
          /\ combine(static_state, carry.dynamic_state)
                = solver_init(inp.solver, it.y0, inp.args)
          /\ carry.aux = aux_placeholder
    /\ (Iterated /\ out.num_steps = 0) =>
          /\ out.aux = aux_placeholder
          /\ inp.fn.has_aux => out.aux # fn_pair(inp.fn, it.y0, inp.args).aux
    /\ (sol # NoSol /\ sol.stats.num_steps = 0) =>
          /\ sol.aux = aux_placeholder
          /\ inp.fn.has_aux => sol.aux # fn_pair(inp.fn, it.y0, inp.args).aux

C14_Witness ==
    /\ pc = "returned"
    /\ init_calls = 1
    /\ sol.stats.num_steps = 0
    /\ inp.fn.has_aux
    /\ sol.aux = Array(0)
    /\ fn_pair(inp.fn, it.y0, inp.args).aux = Array(5)

\* the driver has stopped on body_fun's assertion, without outputs
Aborted == pc = "aborted"

\* C15 as stated, over finite runs: with a finite max_steps the driver, once
\* started, has reached its exit or can still take a step or leave the loop,
\* and has taken at most max_steps steps.
C15_Original ==
    (Finite /\ init_calls = 1) =>
        /\ step_calls <= Budget
        /\ Iterated \/ (pc = "while_loop" /\ ENABLED (BodyFun \/ IterateReturn))

\* C15: with a finite max_steps the driver performs at most max_steps steps
\* and, whatever terminate returns, is never stuck short of its exit unless
\* body_fun's assertion has aborted the solve; with no max_steps the driver
\* leaves the loop exactly on a carry on which terminate returns
\* should_stop = true, and steps on otherwise.
C15_Amended ==
    /\ (Finite /\ init_calls = 1) =>
          /\ step_calls <= Budget
          /\ \/ Iterated
             \/ Aborted
             \/ pc = "while_loop" /\ ENABLED (BodyFun \/ IterateReturn)
    /\ (pc = "while_loop" /\ Finite /\ carry.num_steps = Budget) =>
          (ENABLED IterateReturn /\ ~ENABLED BodyFun)
    /\ (Iterated /\ ~Finite) => final_terminate.stop
    /\ (pc = "while_loop" /\ ~Finite /\ carry_terminate.stop) =>
          (ENABLED IterateReturn /\ ~ENABLED BodyFun)
    /\ (pc = "while_loop" /\ ~Finite /\ ~carry_terminate.stop) =>
          /\ ~ENABLED IterateReturn
          /\ carry.num_steps < StepCap => ENABLED BodyFun

\* C15 witness: terminate never fires and the loop exits on the budget alone
C15_Witness ==
    /\ pc = "iterated"
    /\ Finite
    /\ Budget = MaxSteps
    /\ NeverStops(inp.solver)
    /\ out.num_steps = Budget

\* C16: in the least-squares/minimiser branch the returned code depends only
\* on the residual of fn at the returned value: any other user function with
\* has_aux = True, the same residual there and a different auxiliary output
\* gives, for the same delegated value and code, the same returned code.
C16_AuxIndependent ==
    (revalidated /\ inp.fn.has_aux) =>
        \A fn2 \in Fns :
            (/\ fn2.has_aux
             /\ residual(fn2, delegated.value, inp.args)
                    = residual(inp.fn, delegated.value, inp.args))
                => revalidated_result_of(fn2, delegated) = sol.result

\* the budget, or the model's cap on a loop without budget, allows a step
CanStep ==
    IF Finite THEN carry.num_steps < Budget ELSE carry.num_steps < StepCap

\* C17: the final code is a function of the post-loop terminate call on the
\* final carry alone (its code, or max_steps_reached for (False, successful));
\* the loop test uses only should_stop, so a non-successful code returned with
\* should_stop = false does not end the loop, and a code reported on an
\* earlier carry but not on the final one does not reach the Solution.
C17_FinalCodeFromLastTerminate ==
    /\ Iterated =>
          out.result =
             IF final_terminate.result = successful /\ ~final_terminate.stop
             THEN nonlinear_max_steps_reached
             ELSE final_terminate.result
    /\ (pc = "while_loop" /\ ~carry_terminate.stop /\ CanStep) =>
          (ENABLED BodyFun /\ ~ENABLED IterateReturn)
    /\ (branch = "root_finder" /\ pc = "returned") =>
          /\ sol.result = out.result
          /\ final_terminate.result = successful =>
                sol.result \in {successful, nonlinear_max_steps_reached}

\* C17 witness: terminate reported nonlinear_divergence with should_stop =
\* false on an earlier carry, the loop went on and the Solution is successful
C17_Witness ==
    /\ pc = "returned"
    /\ branch = "root_finder"
    /\ sol.result = successful
    /\ sol.stats.num_steps = 2
    /\ terminate_at(1) = [stop |-> FALSE, result |-> nonlinear_divergence]

\* C18: root_conversion_failed comes only out of the re-validation of the
\* least-squares/minimiser branch; for a root-finder root_find does not
\* re-validate, calls iterative_solve with the caller's max_steps, throw and
\* tags, and returns its Solution as it is, so the code is successful,
\* max_steps_reached or the code of the solver's terminate.
C18_RootFinderBranchForwards ==
    /\ sol.result = nonlinear_root_conversion_failed =>
          (branch = "least_squares" /\ revalidated)
    /\ out.result # nonlinear_root_conversion_failed
    /\ branch = "root_finder" =>
          /\ ~revalidated
          /\ pc \notin {"least_squares_returned", "revalidated"}
          /\ it.max_steps = inp.max_steps
          /\ it.throw = inp.throw
          /\ it.tags = inp.tags
          /\ pc = "returned" =>
                /\ sol = Solution(out, inp.max_steps)
                /\ sol.result \in {successful, nonlinear_max_steps_reached,
                                   final_terminate.result}
          /\ pc = "raised" => (inp.throw /\ out.result # successful)

\* C18 witness: a root-finder solve with tags, a budget and throw = False
\* returns the code of the solver's terminate
C18_Witness ==
    /\ branch = "root_finder"
    /\ pc = "returned"
    /\ inp.tags = {"symmetric"}
    /\ ~inp.throw
    /\ inp.max_steps = <<MaxSteps>>
    /\ sol.result = nonlinear_divergence

\* the non-array part of init's output
init_static ==
    partition(solver_init(inp.solver, it.y0, inp.args), is_array)[2]
\* a tree with array leaves only
ArrayOnly(tree) == partition(tree, is_array)[2] = NoState

\* C19: the non-array part of the solver state is fixed from init's output
\* and kept outside the carry: the carry and the final state hold array
\* leaves only, every terminate and step call in the loop and the post-loop
\* terminate are given init's non-array part combined with the current array
\* part, and the non-array part a step returns is not carried forward.
C19_StaticHoisted ==
    /\ [](init_calls = 1 => static_state = init_static)
    /\ [](pc = "while_loop" =>
            /\ ArrayOnly(carry.dynamic_state)
            /\ body_state(carry)
                  = combine(init_static,
                            partition(last_step.state, is_array)[1]))
    /\ [](Iterated =>
            /\ ArrayOnly(out.final_state)
            /\ combine(static_state, out.final_state)
                  = combine(init_static,
                            partition(last_step.state, is_array)[1]))
    /\ [][StepCalled =>
            last_step' = solver_step(inp.solver, inp.fn, carry.y, inp.args,
                             combine(init_static, carry.dynamic_state))]_vars
    /\ [][StepAccepted =>
            /\ static_state' = static_state
            /\ carry'.dynamic_state
                  = partition(last_step'.state, is_array)[1]]_vars

\* C19 witness: a step returned a fresh jaxpr, and the post-loop terminate
\* was given init's
C19_Witness ==
    /\ pc = "iterated"
    /\ step_calls = 1
    /\ last_step.state.jaxpr = Jaxpr(1)
    /\ combine(static_state, out.final_state).jaxpr = Jaxpr(0)
=============================================================================
